---- MODULE Spec2Model ----
(***************************************************************************)
(* Model of two pieces of the Orbit repository:                            *)
(*                                                                         *)
(*   - NullCommand (envs/mdp/commands/null_command.py), the command term   *)
(*     that generates no command.  Specification SpecNull drives one term  *)
(*     through every sequence of at most MaxCalls calls.                   *)
(*                                                                         *)
(*   - check_camera.py (test/deps/isaacsim), the script that saves camera  *)
(*     frames across episodic resets.  Specification Spec runs the script  *)
(*     from the module-level Nucleus check to simulation_app.close(), with *)
(*     the user free to pause, play and stop the timeline and to quit the  *)
(*     application between loop iterations.                                *)
(*                                                                         *)
(* Abstractions: a camera image is one grey pixel; the content of a file   *)
(* is kept only for the latest rgb file and the latest diff file; poses    *)
(* and joint states are the number of physics steps since they were set.   *)
(***************************************************************************)
EXTENDS Integers, Sequences, FiniteSets, TLC

VARIABLES
    term,           \* the NullCommand instance (its attributes)
    calls,          \* the calls made on the term so far, with their outcomes
    pc,             \* position of the script
    exc,            \* exception that terminated the script, "none" otherwise
    assets_root,    \* nucleus_utils.get_assets_root_path()
    scenario,       \* args_cli.scenario
    app_running,    \* simulation_app.is_running()
    world,          \* the World: timeline state and number of step() calls
    view,           \* poses and joint state of the prims in the view
    initial,        \* initial_pos, initial_joint_pos, initial_joint_vel
    dirs,           \* directories under the script's folder
    files,          \* paths of the image files written
    last_rgb,       \* path and content of the latest *_rgb.png written
    last_diff,      \* path and content of the latest *_diff.png written
    printed,        \* the latest "[Epi NNN] Current image number: NNNNNN"
    count,          \* frame counter
    prev_im,        \* previous image
    episode_count,  \* episode counter
    episode_dir     \* current episode directory

nullVars == <<term, calls>>
scriptVars == <<pc, exc, assets_root, scenario, app_running, world, view, initial,
                dirs, files, last_rgb, last_diff, printed,
                count, prev_im, episode_count, episode_dir>>
vars == <<term, calls, pc, exc, assets_root, scenario, app_running, world, view,
          initial, dirs, files, last_rgb, last_diff, printed,
          count, prev_im, episode_count, episode_dir>>

None == [type |-> "NoneType"]

(***************************************************************************)
(* Bounds of the model.                                                    *)
(***************************************************************************)
MaxCalls == 3       \* calls made on one NullCommand term
NumEnvs == 2        \* environments a reset may name
MaxEpisodes == 2    \* state resets of the camera loop
MaxPaused == 2      \* loop iterations taken while the timeline is paused

(***************************************************************************)
(* NullCommand                                                             *)
(***************************************************************************)

\* cfg.resampling_time_range values a term is constructed with
TimeRanges == {<<0, 0>>, <<1, 5>>, <<10, 10>>}

\* env_ids: Sequence[int] | None
EnvIdArgs == {[given |-> FALSE, ids |-> {}]}
             \cup {[given |-> TRUE, ids |-> s] : s \in SUBSET (0 .. NumEnvs - 1)}

\* dt: float, in milliseconds
DtArgs == {-5, 0, 5}

NoArg == [given |-> FALSE, ids |-> {}]

\* the empty dict[str, float]
EmptyDict == [k \in {} |-> 0]

Return(self, v) == [self |-> self, exc |-> "none", ret |-> v]
Raise(self, e) == [self |-> self, exc |-> e, ret |-> None]

str(self) ==
    Return(self, [type |-> "str",
                  val |-> <<"NullCommand:", "Command dimension: N/A",
                            "Resampling time range:", self.cfg.resampling_time_range>>])

\* the property returns instead of raising
command_returns(self) == Return(self, None)

command(self) == Raise(self, "RuntimeError")

\* reset reports a metric for the environments it was given
reset_reports_metric(self, env_ids) ==
    Return(self, [type |-> "dict",
                  val |-> IF env_ids.given /\ env_ids.ids # {}
                          THEN [k \in {"metric"} |-> 0] ELSE EmptyDict])

reset(self, env_ids) == Return(self, [type |-> "dict", val |-> EmptyDict])

\* compute counts the time step down from the resampling range
compute_counts_down(self, dt) ==
    Return([self EXCEPT !.cfg.resampling_time_range = <<@[1] - dt, @[2]>>], None)

compute(self, dt) == Return(self, None)

resample_command(self, env_ids) == Return(self, None)

update_command(self) == Return(self, None)

update_metrics(self) == Return(self, None)

\* one call on the term: the term becomes what the method leaves, and the
\* call is recorded with its outcome
Invoke(op, arg, r) ==
    /\ Len(calls) < MaxCalls
    /\ term' = r.self
    /\ calls' = Append(calls, [op |-> op, arg |-> arg, exc |-> r.exc, ret |-> r.ret])
    /\ UNCHANGED scriptVars

CallStr == Invoke("__str__", NoArg, str(term))

CallCommand == Invoke("command", NoArg, command(term))

CallReset == \E env_ids \in EnvIdArgs : Invoke("reset", env_ids, reset(term, env_ids))

CallCompute == \E dt \in DtArgs : Invoke("compute", [given |-> TRUE, ids |-> {dt}], compute(term, dt))

CallResampleCommand ==
    \E env_ids \in {a \in EnvIdArgs : a.given} :
        Invoke("_resample_command", env_ids, resample_command(term, env_ids))

CallUpdateCommand == Invoke("_update_command", NoArg, update_command(term))

CallUpdateMetrics == Invoke("_update_metrics", NoArg, update_metrics(term))

(***************************************************************************)
(* Properties of NullCommand, checked under SpecNull                       *)
(***************************************************************************)

Hooks == {"compute", "_resample_command", "_update_command", "_update_metrics"}

\* C1: whatever calls were made on the term before (none, reset, compute,
\* earlier command reads), reading `command` raises RuntimeError: every
\* recorded read raised it and returned nothing, and a read in the current
\* state raises it too.
C1_CommandAlwaysRaises ==
    /\ command(term).exc = "RuntimeError"
    /\ \A i \in 1 .. Len(calls) :
          calls[i].op = "command" =>
              calls[i].exc = "RuntimeError" /\ calls[i].ret = None

C1_Witness ==
    /\ Len(calls) = 3
    /\ calls[1].op = "reset"
    /\ calls[2].op = "compute"
    /\ calls[3].op = "command"
    /\ calls[3].exc = "RuntimeError"

\* C2: reset returns an empty mapping and never raises, for every argument
\* (None, the empty set, a proper subset, all environments) and after every
\* sequence of earlier calls.
C2_ResetReturnsEmptyDict ==
    /\ \A env_ids \in EnvIdArgs :
          /\ reset(term, env_ids).exc = "none"
          /\ reset(term, env_ids).ret.type = "dict"
          /\ DOMAIN reset(term, env_ids).ret.val = {}
    /\ \A i \in 1 .. Len(calls) :
          calls[i].op = "reset" =>
              /\ calls[i].exc = "none"
              /\ calls[i].ret.type = "dict"
              /\ DOMAIN calls[i].ret.val = {}

C2_Witness ==
    /\ Len(calls) = 3
    /\ calls[1].op = "compute"
    /\ calls[2].op = "reset" /\ ~calls[2].arg.given
    /\ calls[3].op = "reset" /\ calls[3].arg.given
    /\ calls[3].arg.ids = 0 .. NumEnvs - 1
    /\ calls[3].exc = "none"
    /\ calls[3].ret.val = EmptyDict

\* C3: compute and the three hooks never raise and leave the term as it
\* was: its attributes, what a reset returns for every argument, what a
\* command read raises and what __str__ shows are the same after the call.
C3_ComputeChangesNothing ==
    [][(Len(calls') = Len(calls) + 1 /\ calls'[Len(calls')].op \in Hooks) =>
          /\ calls'[Len(calls')].exc = "none"
          /\ calls'[Len(calls')].ret = None
          /\ term' = term
          /\ str(term').ret = str(term).ret
          /\ command(term').exc = command(term).exc
          /\ \A env_ids \in EnvIdArgs :
                /\ reset(term', env_ids).exc = reset(term, env_ids).exc
                /\ reset(term', env_ids).ret = reset(term, env_ids).ret]_vars

C3_Witness ==
    /\ Len(calls) = 3
    /\ calls[1].op = "compute" /\ calls[1].arg.ids = {5}
    /\ calls[2].op = "reset" /\ calls[2].ret.val = EmptyDict
    /\ calls[3].op = "command" /\ calls[3].exc = "RuntimeError"
    /\ term.cfg.resampling_time_range = <<1, 5>>

(***************************************************************************)
(* check_camera.py                                                         *)
(***************************************************************************)

\* grey values the rgb annotator may deliver
Pixels == {0, 20, 100}

Image(p) == [type |-> "Image", px |-> p]

Tensor(n) == [type |-> "Tensor", val |-> n]

\* f"{n:0<width>d}": the decimal digits of n, zero-padded on the left
RECURSIVE Digits(_)
Digits(n) == IF n < 10 THEN <<n>> ELSE Digits(n \div 10) \o <<n % 10>>

RECURSIVE ZeroPad(_, _)
ZeroPad(s, width) == IF Len(s) >= width THEN s ELSE ZeroPad(<<0>> \o s, width)

Format(n, width) == ZeroPad(Digits(n), width)

\* os.path.join(<script folder>, "output", "camera", args_cli.scenario)
output_dir_of(sc) == [base |-> <<"output", "camera", sc>>, episode |-> <<>>]

\* os.path.join(output_dir, f"episode_{episode_count:06d}")
episode_dir_of(out, n) == [base |-> out.base, episode |-> Format(n, 6)]

\* os.path.join(episode_dir, f"{count:06d}_rgb.png") and ..._diff.png
frame_path(dir, n, kind) == [dir |-> dir, num |-> Format(n, 6), kind |-> kind]

\* os.makedirs(path, exist_ok=...): creates the directory and its parents
makedirs(fs, path, exist_ok) ==
    IF path \in fs /\ ~exist_ok
    THEN [exc |-> "FileExistsError", dirs |-> fs]
    ELSE [exc |-> "none",
          dirs |-> fs \cup {path, [base |-> path.base, episode |-> <<>>]}]

\* Image.save(path): fails when the folder does not exist
save(fs, fdirs, path) ==
    IF path.dir \in fdirs
    THEN [exc |-> "none", files |-> fs \cup {path}]
    ELSE [exc |-> "FileNotFoundError", files |-> fs]

\* ImageChops.difference, convert("L"), point(lambda p: p > threshold and 255)
threshold == 30

difference(a, b) == Image(IF a.px >= b.px THEN a.px - b.px ELSE b.px - a.px)

point(im) == Image(IF im.px > threshold THEN 255 ELSE 0)

\* dst_im: prev_im, curr_im and diff_im pasted side by side
composite(prev, curr) == <<prev.px, curr.px, point(difference(curr, prev)).px>>

\* world.step(): counted always, physics advances only while playing
advance(t) == IF t = None THEN None ELSE Tensor(t.val + 1)

step_world(w) == [w EXCEPT !.step_calls = @ + 1]

step_view(w, v) ==
    IF w.timeline = "playing"
    THEN [pos |-> advance(v.pos), joint_pos |-> advance(v.joint_pos),
          joint_vel |-> advance(v.joint_vel)]
    ELSE v

RECURSIVE steps_world(_, _)
steps_world(w, n) == IF n = 0 THEN w ELSE steps_world(step_world(w), n - 1)

RECURSIVE steps_view(_, _, _)
steps_view(w, v, n) == IF n = 0 THEN v ELSE steps_view(w, step_view(w, v), n - 1)

\* interval of the state resets, physics steps per frame, warm-up steps
reset_interval == 25
steps_per_frame == 15
warmup_steps == 5

FramesSaved == IF episode_count = 0 THEN 0 ELSE (episode_count - 1) * reset_interval + count

PausedIterations == world.step_calls - warmup_steps - steps_per_frame * FramesSaved

\* the check is skipped
nucleus_never_unset(root) == FALSE

\* line 62
nucleus_unset(root) == root = None

\* lines 61-69: the Nucleus check at import time
CheckNucleus ==
    /\ pc = "check_nucleus"
    /\ IF nucleus_unset(assets_root)
       THEN pc' = "raised" /\ exc' = "RuntimeError"
       ELSE pc' = "main" /\ exc' = exc
    /\ UNCHANGED <<assets_root, scenario, app_running, world, view, initial, dirs,
                   files, last_rgb, last_diff, printed, count, prev_im,
                   episode_count, episode_dir>>
    /\ UNCHANGED nullVars

\* lines 73-186: main() up to the loop
MainSetup ==
    /\ pc = "main"
    /\ LET output_dir == output_dir_of(scenario)
           m1 == makedirs(dirs, output_dir, TRUE)
           joints == IF scenario = "cube" THEN None ELSE Tensor(0)
           w0 == [timeline |-> "playing", step_calls |-> 0]
           v0 == [pos |-> Tensor(0), joint_pos |-> joints, joint_vel |-> joints]
           edir == episode_dir_of(output_dir, 0)
           m2 == makedirs(m1.dirs, edir, TRUE)
       IN  IF m1.exc # "none"
           THEN /\ pc' = "raised" /\ exc' = m1.exc
                /\ UNCHANGED <<world, view, initial, dirs, count, prev_im,
                               episode_count, episode_dir>>
           ELSE /\ world' = steps_world(w0, warmup_steps)
                /\ view' = steps_view(w0, v0, warmup_steps)
                /\ initial' = [initial_pos |-> v0.pos,
                               initial_joint_pos |-> v0.joint_pos,
                               initial_joint_vel |-> v0.joint_vel]
                /\ count' = 0
                /\ prev_im' = None
                /\ episode_count' = 0
                /\ episode_dir' = edir
                /\ dirs' = m2.dirs
                /\ IF m2.exc # "none"
                   THEN pc' = "raised" /\ exc' = m2.exc
                   ELSE pc' = "loop_top" /\ exc' = exc
    /\ UNCHANGED <<assets_root, scenario, app_running, files, last_rgb, last_diff,
                   printed>>
    /\ UNCHANGED nullVars

\* simulation_app.is_running(), world.is_stopped(), world.is_playing()
is_running(app) == app

\* a stop of the timeline goes unnoticed
is_stopped_never(w) == FALSE

is_stopped(w) == w.timeline = "stopped"

\* a paused timeline counts as playing
is_playing_unless_stopped(w) == w.timeline # "stopped"

is_playing(w) == w.timeline = "playing"

\* line 188 and line 190: the two exits of the loop
LoopExitAppClosed ==
    /\ pc = "loop_top"
    /\ ~is_running(app_running)
    /\ pc' = "returned"
    /\ UNCHANGED <<exc, assets_root, scenario, app_running, world, view, initial,
                   dirs, files, last_rgb, last_diff, printed, count, prev_im,
                   episode_count, episode_dir>>
    /\ UNCHANGED nullVars

LoopExitStopped ==
    /\ pc = "loop_top"
    /\ is_running(app_running)
    /\ is_stopped(world)
    /\ pc' = "returned"
    /\ UNCHANGED <<exc, assets_root, scenario, app_running, world, view, initial,
                   dirs, files, last_rgb, last_diff, printed, count, prev_im,
                   episode_count, episode_dir>>
    /\ UNCHANGED nullVars

\* lines 193-195: the timeline is paused, step once and start over
LoopPaused ==
    /\ pc = "loop_top"
    /\ is_running(app_running)
    /\ ~is_stopped(world)
    /\ ~is_playing(world)
    /\ PausedIterations < MaxPaused
    /\ world' = step_world(world)
    /\ view' = step_view(world, view)
    /\ UNCHANGED <<pc, exc, assets_root, scenario, app_running, initial, dirs,
                   files, last_rgb, last_diff, printed, count, prev_im,
                   episode_count, episode_dir>>
    /\ UNCHANGED nullVars

\* line 197
reset_due(c) == c % reset_interval = 0

\* lines 199-203: reset all the state
set_state(v, init) ==
    [pos |-> init.initial_pos,
     joint_pos |-> IF init.initial_joint_pos # None
                   THEN init.initial_joint_pos ELSE v.joint_pos,
     joint_vel |-> IF init.initial_joint_vel # None
                   THEN init.initial_joint_vel ELSE v.joint_vel]

\* the episode directory is always the first one
same_episode_dir(out, ec) == episode_dir_of(out, 0)

\* the episode directory is named after the counter was incremented
next_episode_dir(out, ec) == episode_dir_of(out, ec + 1)

\* line 205: the directory of the episode that starts
new_episode_dir(out, ec) == episode_dir_of(out, ec)

\* the frame counter is not set back
keep_count(c, ec) == [count |-> c, episode_count |-> ec + 1]

\* lines 208-209: reset counters
reset_counters(c, ec) == [count |-> 0, episode_count |-> ec + 1]

\* lines 196-209: reset on intervals
LoopReset ==
    /\ pc = "loop_top"
    /\ is_running(app_running)
    /\ ~is_stopped(world)
    /\ is_playing(world)
    /\ reset_due(count)
    /\ episode_count < MaxEpisodes
    /\ LET edir == new_episode_dir(output_dir_of(scenario), episode_count)
           m == makedirs(dirs, edir, TRUE)
           counters == reset_counters(count, episode_count)
       IN  /\ view' = set_state(view, initial)
           /\ episode_dir' = edir
           /\ dirs' = m.dirs
           /\ IF m.exc # "none"
              THEN /\ pc' = "raised" /\ exc' = m.exc
                   /\ UNCHANGED <<count, episode_count>>
              ELSE /\ pc' = "simulate" /\ exc' = exc
                   /\ count' = counters.count
                   /\ episode_count' = counters.episode_count
    /\ UNCHANGED <<assets_root, scenario, app_running, world, initial, files,
                   last_rgb, last_diff, printed, prev_im>>
    /\ UNCHANGED nullVars

\* line 197 is false: no reset in this iteration
LoopNoReset ==
    /\ pc = "loop_top"
    /\ is_running(app_running)
    /\ ~is_stopped(world)
    /\ is_playing(world)
    /\ ~reset_due(count)
    /\ pc' = "simulate"
    /\ UNCHANGED <<exc, assets_root, scenario, app_running, world, view, initial,
                   dirs, files, last_rgb, last_diff, printed, count, prev_im,
                   episode_count, episode_dir>>
    /\ UNCHANGED nullVars

\* line 219
print_line(ec, c) == [epi |-> Format(ec, 3), number |-> Format(c, 6)]

\* line 224
has_prev(prev) == prev # None

\* the previous image is not refreshed once it is set
stale_copy(im) == IF prev_im = None THEN im ELSE prev_im

\* line 238
copy(im) == im

\* lines 210-245: step the simulation, read the camera, save the frame
StepAndSave ==
    /\ pc = "simulate"
    /\ \E rgb_data \in Pixels :
        LET curr_im == Image(rgb_data)
            rgb_path == frame_path(episode_dir, count, "rgb")
            diff_path == frame_path(episode_dir, count, "diff")
            s1 == save(files, dirs, rgb_path)
            s2 == save(s1.files, dirs, diff_path)
        IN  /\ world' = steps_world(world, steps_per_frame)
            /\ view' = steps_view(world, view, steps_per_frame)
            /\ printed' = print_line(episode_count, count)
            /\ IF s1.exc # "none"
               THEN /\ pc' = "raised" /\ exc' = s1.exc
                    /\ UNCHANGED <<files, last_rgb, last_diff, prev_im, count>>
               ELSE /\ last_rgb' = [path |-> rgb_path, data |-> curr_im.px]
                    /\ IF has_prev(prev_im)
                       THEN /\ files' = s2.files
                            /\ last_diff' = [path |-> diff_path,
                                             data |-> composite(prev_im, curr_im)]
                       ELSE /\ files' = s1.files
                            /\ last_diff' = last_diff
                    /\ prev_im' = copy(curr_im)
                    /\ count' = count + 1
                    /\ pc' = "loop_top" /\ exc' = exc
    /\ UNCHANGED <<assets_root, scenario, app_running, initial, dirs,
                   episode_count, episode_dir>>
    /\ UNCHANGED nullVars

\* lines 250-252: main() has returned, close the simulator
Close ==
    /\ pc = "returned"
    /\ pc' = "closed"
    /\ app_running' = FALSE
    /\ UNCHANGED <<exc, assets_root, scenario, world, view, initial, dirs, files,
                   last_rgb, last_diff, printed, count, prev_im, episode_count,
                   episode_dir>>
    /\ UNCHANGED nullVars

\* The user: the timeline buttons and the window, seen by the script at the
\* head of the loop (lines 188, 190 and 193)
UserPause ==
    /\ pc = "loop_top"
    /\ app_running
    /\ world.timeline = "playing"
    /\ world' = [world EXCEPT !.timeline = "paused"]
    /\ UNCHANGED <<pc, exc, assets_root, scenario, app_running, view, initial, dirs,
                   files, last_rgb, last_diff, printed, count, prev_im,
                   episode_count, episode_dir>>
    /\ UNCHANGED nullVars

UserPlay ==
    /\ pc = "loop_top"
    /\ app_running
    /\ world.timeline \in {"paused", "stopped"}
    /\ world' = [world EXCEPT !.timeline = "playing"]
    /\ UNCHANGED <<pc, exc, assets_root, scenario, app_running, view, initial, dirs,
                   files, last_rgb, last_diff, printed, count, prev_im,
                   episode_count, episode_dir>>
    /\ UNCHANGED nullVars

UserStop ==
    /\ pc = "loop_top"
    /\ app_running
    /\ world.timeline \in {"playing", "paused"}
    /\ world' = [world EXCEPT !.timeline = "stopped"]
    /\ UNCHANGED <<pc, exc, assets_root, scenario, app_running, view, initial, dirs,
                   files, last_rgb, last_diff, printed, count, prev_im,
                   episode_count, episode_dir>>
    /\ UNCHANGED nullVars

UserQuit ==
    /\ pc = "loop_top"
    /\ app_running
    /\ app_running' = FALSE
    /\ UNCHANGED <<pc, exc, assets_root, scenario, world, view, initial, dirs,
                   files, last_rgb, last_diff, printed, count, prev_im,
                   episode_count, episode_dir>>
    /\ UNCHANGED nullVars

(***************************************************************************)
(* Properties of check_camera.py, checked under Spec                       *)
(***************************************************************************)

InLoop == pc \in {"loop_top", "simulate"}

\* a step of the script itself, as opposed to one of the user
ScriptStep == world'.timeline = world.timeline /\ app_running' = app_running

\* the step that begins a playing iteration and the step that saves a frame
ResetStep == pc = "loop_top" /\ pc' = "simulate" /\ episode_count' # episode_count
SaveStep == pc = "simulate" /\ pc' = "loop_top"

rgb_files(d) == {f \in files : f.dir = d /\ f.kind = "rgb"}

\* C4: with the Nucleus assets root unset the script raises RuntimeError at
\* the module-level check and goes no further: main() is never entered, no
\* World exists, no step is taken, no directory and no image file is made.
C4_NucleusUnsetRaisesBeforeMain ==
    assets_root = None =>
        /\ pc \in {"check_nucleus", "raised"}
        /\ pc = "raised" => exc = "RuntimeError"
        /\ world = None
        /\ view = None
        /\ dirs = {}
        /\ files = {}
        /\ last_rgb = None /\ last_diff = None

C4_Witness == assets_root = None /\ pc = "raised" /\ exc = "RuntimeError"

\* C5: every frame file lies in an existing directory episode_NNNNNN under
\* output/camera/<scenario> and no save fails for a missing folder; a frame
\* is written into the current episode directory, which changes only at a
\* state reset; and a reset selects a directory that holds no frame yet.
C5_FramesInEpisodeDirs ==
    /\ [](/\ exc # "FileNotFoundError"
          /\ \A f \in files :
                /\ f.dir \in dirs
                /\ f.dir.base = <<"output", "camera", scenario>>
                /\ \E n \in 0 .. MaxEpisodes : f.dir.episode = Format(n, 6))
    /\ [][/\ SaveStep =>
                /\ episode_dir \in dirs
                /\ files' # files
                /\ \A f \in files' \ files : f.dir = episode_dir
          /\ (InLoop /\ episode_dir' # episode_dir) => ResetStep
          /\ ResetStep =>
                /\ episode_dir' \in dirs'
                /\ \A f \in files : f.dir # episode_dir']_vars

C5_Witness ==
    /\ pc = "loop_top"
    /\ \E f, g \in files : f.dir # g.dir /\ g.dir = episode_dir /\ g.dir \in dirs

\* C6: a playing iteration resets the state exactly when no frame was saved
\* yet or 25 frames were saved since the last reset; the reset restores the
\* initial poses (and joint state, if any), sets the frame counter to 0 and
\* adds 1 to the episode counter; the frame counter is within 0..25 at the
\* head of the loop and counts the rgb frames of the current episode, which
\* are numbered from 000000 without gaps up to at most 000024.
C6_ResetEvery25Frames ==
    /\ [](/\ pc = "loop_top" => count \in 0 .. reset_interval
          /\ pc = "simulate" => count \in 0 .. reset_interval - 1
          /\ (InLoop /\ episode_count = 0) => files = {} /\ count = 0
          /\ (InLoop /\ episode_count > 0) =>
                Cardinality(rgb_files(episode_dir)) = count
          /\ \A f \in files :
                f.kind = "rgb" =>
                    \E n \in 0 .. reset_interval - 1 :
                        /\ f.num = Format(n, 6)
                        /\ n > 0 => frame_path(f.dir, n - 1, "rgb") \in files)
    /\ [][/\ (pc = "loop_top" /\ pc' = "simulate") =>
                (ResetStep <=> (files = {} \/ count = reset_interval))
          /\ ResetStep =>
                /\ view'.pos = initial.initial_pos
                /\ view'.joint_pos = initial.initial_joint_pos
                /\ view'.joint_vel = initial.initial_joint_vel
                /\ count' = 0
                /\ episode_count' = episode_count + 1
          /\ (InLoop /\ ~ResetStep) =>
                /\ episode_count' = episode_count
                /\ count' = count \/ (SaveStep /\ count' = count + 1)]_vars

C6_Witness ==
    /\ pc = "simulate"
    /\ episode_count = 2
    /\ count = 0
    /\ view.pos = initial.initial_pos
    /\ Cardinality(rgb_files(episode_dir_of(output_dir_of(scenario), 0))) = reset_interval

\* C7: an iteration taken while the timeline is paused steps the world once
\* and does nothing else: counters, episode directory, previous image,
\* poses, directories and files are as before, also when the frame counter
\* is a multiple of 25.
C7_PausedIterationOnlySteps ==
    [][(pc = "loop_top" /\ app_running /\ world.timeline = "paused" /\ ScriptStep) =>
          /\ world'.step_calls = world.step_calls + 1
          /\ pc' = "loop_top"
          /\ UNCHANGED <<count, episode_count, episode_dir, prev_im, view, dirs,
                         files, last_rgb, last_diff, printed, exc>>]_vars

C7_Witness ==
    /\ pc = "loop_top"
    /\ world.timeline = "paused"
    /\ world.step_calls = warmup_steps + 1
    /\ count = 0 /\ episode_count = 0
    /\ dirs # {} /\ files = {}

\* C8: the loop is left exactly at a head-of-loop check that finds the app
\* not running or the world stopped; after that nothing is reset, stepped or
\* written, and the only step left is simulation_app.close().
C8_LoopExit ==
    /\ [](pc = "closed" => ~app_running /\ exc = "none")
    /\ [][/\ (pc = "loop_top" /\ pc' = "returned") =>
                (~app_running \/ world.timeline = "stopped")
          /\ (pc = "loop_top" /\ ScriptStep
                 /\ (~app_running \/ world.timeline = "stopped")) =>
                /\ pc' = "returned"
                /\ UNCHANGED <<world, view, dirs, files, count, episode_count,
                               episode_dir, prev_im, last_rgb, last_diff, printed>>
          /\ pc = "returned" =>
                /\ pc' = "closed"
                /\ UNCHANGED <<world, view, dirs, files, count, episode_count,
                               episode_dir, prev_im, last_rgb, last_diff, printed>>
          /\ pc = "closed" => UNCHANGED vars
          /\ pc' = "closed" => pc = "returned"]_vars

C8_Witness ==
    /\ pc = "closed"
    /\ world.timeline = "stopped"
    /\ count = 3 /\ episode_count = 2
    /\ ~app_running

\* C9: every saved frame but the first of the run has a diff composite
\* beside it; the composite shows the frame saved just before, the current
\* frame and their thresholded difference; at frame 000000 of a later
\* episode the frame saved just before is 000024 of the preceding episode,
\* and the composite goes into the new episode's directory.
C9_DiffAgainstPreviousFrame ==
    /\ [](\A f \in files :
            /\ f.kind = "diff" => frame_path(f.dir, 0, "rgb") \in files
            /\ f.kind = "rgb" =>
                  (frame_path(f.dir, 0, "diff") \in files
                     <=> f.dir # episode_dir_of(output_dir_of(scenario), 0))
            /\ (f.kind = "rgb" /\ f.num # Format(0, 6)) =>
                  [f EXCEPT !.kind = "diff"] \in files)
    /\ [][SaveStep =>
            /\ last_rgb'.path = frame_path(episode_dir, count, "rgb")
            /\ (last_rgb = None) <=> (episode_count = 1 /\ count = 0)
            /\ last_rgb = None => last_diff' = None
            /\ last_rgb # None =>
                  /\ last_diff'.path = frame_path(episode_dir, count, "diff")
                  /\ last_diff'.path \in files'
                  /\ last_diff'.data[1] = last_rgb.data
                  /\ last_diff'.data[2] = last_rgb'.data
                  /\ last_diff'.data[3] \in {0, 255}
                  /\ last_diff'.data[3] = 255 <=>
                        (last_rgb'.data - last_rgb.data > threshold
                           \/ last_rgb.data - last_rgb'.data > threshold)
                  /\ count > 0 => last_rgb.path = frame_path(episode_dir, count - 1, "rgb")
                  /\ count = 0 =>
                        /\ last_rgb.path =
                              frame_path(episode_dir_of(output_dir_of(scenario),
                                                        episode_count - 2),
                                         reset_interval - 1, "rgb")
                        /\ last_diff'.path.dir # last_rgb.path.dir]_vars

C9_Witness ==
    /\ last_diff # None
    /\ last_diff.path.num = Format(0, 6)
    /\ last_diff.path.dir = episode_dir_of(output_dir_of(scenario), 1)
    /\ last_diff.data = <<100, 0, 255>>
    /\ last_rgb.path.dir = last_diff.path.dir

\* C10: a frame printed under episode number n lies in directory
\* episode_(n-1), never in episode_n; and the first reset in the loop
\* selects episode_000000, the directory made before the loop, creating
\* nothing new.
C10_PrintedEpisodeIsDirPlusOne ==
    /\ [](last_rgb # None =>
            /\ \E n \in 0 .. MaxEpisodes :
                  /\ last_rgb.path.dir.episode = Format(n, 6)
                  /\ printed.epi = Format(n + 1, 3)
                  /\ pc = "loop_top" => episode_count = n + 1
            /\ \A n \in 0 .. MaxEpisodes + 1 :
                  ~(last_rgb.path.dir.episode = Format(n, 6) /\ printed.epi = Format(n, 3))
            /\ printed.number = last_rgb.path.num)
    /\ [][(ResetStep /\ episode_count = 0) =>
            /\ episode_dir' = episode_dir
            /\ episode_dir' = episode_dir_of(output_dir_of(scenario), 0)
            /\ dirs' = dirs]_vars

C10_Witness ==
    /\ pc = "loop_top"
    /\ episode_count = 2
    /\ last_rgb # None
    /\ last_rgb.path.dir.episode = Format(1, 6)
    /\ printed.epi = Format(2, 3)

(***************************************************************************)
(* Specifications                                                          *)
(***************************************************************************)

AssetsRoots == {None, [type |-> "str", val |-> "omniverse://localhost/NVIDIA/Assets/Isaac/2023.1.0"]}

Scenarios == {"anymal", "cube"}

NoTerm == [cfg |-> [resampling_time_range |-> <<0, 0>>]]

ScriptStart ==
    /\ pc = "check_nucleus"
    /\ exc = "none"
    /\ app_running = TRUE
    /\ world = None
    /\ view = None
    /\ initial = None
    /\ dirs = {}
    /\ files = {}
    /\ last_rgb = None
    /\ last_diff = None
    /\ printed = None
    /\ count = 0
    /\ prev_im = None
    /\ episode_count = 0
    /\ episode_dir = None

Init ==
    /\ term = NoTerm
    /\ calls = <<>>
    /\ assets_root \in AssetsRoots
    /\ scenario \in Scenarios
    /\ ScriptStart

Next ==
    \/ CheckNucleus
    \/ MainSetup
    \/ LoopExitAppClosed
    \/ LoopExitStopped
    \/ LoopPaused
    \/ LoopReset
    \/ LoopNoReset
    \/ StepAndSave
    \/ Close
    \/ UserPause
    \/ UserPlay
    \/ UserStop
    \/ UserQuit

Spec == Init /\ [][Next]_vars

InitNull ==
    /\ term \in {[cfg |-> [resampling_time_range |-> r]] : r \in TimeRanges}
    /\ calls = <<>>
    /\ assets_root = None
    /\ scenario = "anymal"
    /\ ScriptStart

NextNull ==
    \/ CallStr
    \/ CallCommand
    \/ CallReset
    \/ CallCompute
    \/ CallResampleCommand
    \/ CallUpdateCommand
    \/ CallUpdateMetrics

SpecNull == InitNull /\ [][NextNull]_vars

====
